---- MODULE Spec2Model ----
(***************************************************************************)
(* Strength-reduced unsigned division (strength_reduce): the engines       *)
(* StrengthReducedU8, the strength_reduced_u16!/u32!/u64! macro families   *)
(* (U16, U32, U64 and the pointer-width Usize), StrengthReducedU128 and    *)
(* the wide multiplication of long_multiplication.rs.                      *)
(*                                                                         *)
(* All arithmetic is fixed-width.  An operation returns a record           *)
(*   [val |-> the wrapped result, ovf |-> the set of steps that left       *)
(*    their type's range]                                                  *)
(* A step that leaves its range panics when the build has overflow checks  *)
(* and wraps otherwise; the actions choose between both outcomes.          *)
(*                                                                         *)
(* StrengthReducedU8 is modelled at its true width.  The macro families    *)
(* and the 128-bit engine are modelled with the code's structure and a     *)
(* scaled word size: Bits16 stands for 16, Bits32 for 32, LimbBits for the *)
(* 64-bit limb (so U64 is one limb wide and U128 two limbs wide).          *)
(***************************************************************************)
EXTENDS Integers, Sequences, FiniteSets, TLC

VARIABLES ty, arg, eng, num, op, out

vars == <<ty, arg, eng, num, op, out>>

\* ------------------------------------------------------------------ widths
\* u8 (StrengthReducedU8: multiplier u16, products in u32)
BitsU8 == 8
\* scaled width of the strength_reduced_u16! family (u16, intermediate u32)
Bits16 == 5
\* scaled width of the strength_reduced_u32! family (u32, u64, u128)
Bits32 == 6
\* scaled width of the 64-bit limb: u64 is one limb, u128 two limbs
LimbBits == 3

Types == {"U8", "U16", "U32", "U64", "U128", "Usize16", "Usize32", "Usize64"}

\* the macro (or hand-written impl) each engine type is generated by
Family(t) ==
  CASE t = "U8" -> "u8"
    [] t \in {"U16", "Usize16"} -> "u16"
    [] t \in {"U32", "Usize32"} -> "u32"
    [] t \in {"U64", "Usize64"} -> "u64"
    [] t = "U128" -> "u128"

\* the number of bits of the primitive type of an engine type
Width(t) ==
  CASE Family(t) = "u8" -> BitsU8
    [] Family(t) = "u16" -> Bits16
    [] Family(t) = "u32" -> Bits32
    [] Family(t) = "u64" -> LimbBits
    [] Family(t) = "u128" -> 2 * LimbBits

\* ------------------------------------------------------- integer primitives
\* 2^k for the exponents k <= 30, which the checker's integers can hold
RECURSIVE Pow2Rec(_)
Pow2Rec(k) == IF k = 0 THEN 1 ELSE 2 * Pow2Rec(k - 1)
Pow2Table == [k \in 0..30 |-> Pow2Rec(k)]
Pow2(k) == Pow2Table[k]

\* core::<uN>::MAX
MAX(w) == Pow2(w) - 1

\* x >> k (floor division, also of a negative exact value); one bit at a
\* time where 2^k itself is too large to write down
RECURSIVE ShrRec(_, _)
ShrRec(x, k) == IF k = 0 THEN x ELSE ShrRec(x \div 2, k - 1)
Shr(x, k) == IF k <= 30 THEN x \div Pow2(k) ELSE ShrRec(x, k)

\* x * 2^k, one bit at a time
RECURSIVE Shl(_, _)
Shl(x, k) == IF k = 0 \/ x = 0 THEN x ELSE Shl(2 * x, k - 1)

\* `x as uN`, and the value a wrapping operation leaves: x mod 2^w
Wrap(x, w) == IF w <= 30 THEN x % Pow2(w) ELSE x - Shl(Shr(x, w), w)

\* x & y, bit by bit
RECURSIVE BitAnd(_, _)
BitAnd(x, y) ==
  IF x = 0 \/ y = 0 THEN 0
  ELSE (IF x % 2 = 1 /\ y % 2 = 1 THEN 1 ELSE 0) + 2 * BitAnd(x \div 2, y \div 2)

\* x | y, bit by bit
RECURSIVE BitOr(_, _)
BitOr(x, y) ==
  IF x = 0 THEN y
  ELSE IF y = 0 THEN x
  ELSE (IF x % 2 = 1 \/ y % 2 = 1 THEN 1 ELSE 0) + 2 * BitOr(x \div 2, y \div 2)

\* uN::is_power_of_two: exactly one bit set
RECURSIVE is_power_of_two(_)
is_power_of_two(x) ==
  IF x = 0 THEN FALSE
  ELSE IF x % 2 = 1 THEN x = 1
  ELSE is_power_of_two(x \div 2)

\* uN::trailing_zeros of a non-zero value
RECURSIVE trailing_zeros(_)
trailing_zeros(x) == IF x % 2 = 1 THEN 0 ELSE 1 + trailing_zeros(x \div 2)

\* the result of an operation: the wrapped value and the steps that overflowed
R(v, o) == [val |-> v, ovf |-> o]

\* the step `name` overflows when the exact value x is not a w-bit unsigned
Flag(x, w, name) == IF Shr(x, w) # 0 THEN {name} ELSE {}

\* Option<NonZeroUxx>, and NonZeroUxx::new
None == [some |-> FALSE]
Some(d) == [some |-> TRUE, get |-> d]
NonZero_new(d) == IF d = 0 THEN None ELSE Some(d)

\* no engine has been constructed
NoEngine == [none |-> TRUE]

\* ------------------------------------------------------ StrengthReducedU8
\* new that takes every even divisor for a power of two
new_u8_even_sentinel(divisor) ==
  IF divisor % 2 = 0 \/ divisor = 1
  THEN R([divisor |-> divisor, multiplier |-> 0], {})
  ELSE LET divided == MAX(2 * BitsU8) \div divisor
       IN R([divisor |-> divisor, multiplier |-> Wrap(divided + 1, 2 * BitsU8)], {})

new_u8(divisor) ==
  IF is_power_of_two(divisor)
  THEN R([divisor |-> divisor, multiplier |-> 0], {})
  ELSE LET divided == MAX(2 * BitsU8) \div divisor
       IN R([divisor |-> divisor, multiplier |-> Wrap(divided + 1, 2 * BitsU8)],
            Flag(divided + 1, 2 * BitsU8, "divided + 1"))

get_u8(self) == self.divisor

divide_u8(self, n) ==
  IF self.multiplier = 0
  THEN R(Wrap(Shr(n, trailing_zeros(get_u8(self))), BitsU8), {})
  ELSE LET numerator == n
           hi == numerator * Shr(self.multiplier, BitsU8)
           multiplied_hi == Wrap(hi, 2 * BitsU8)
           lo == numerator * Wrap(self.multiplier, BitsU8)
           multiplied_lo == Shr(Wrap(lo, 2 * BitsU8), BitsU8)
           sum == multiplied_hi + multiplied_lo
       IN R(Wrap(Shr(Wrap(sum, 2 * BitsU8), BitsU8), BitsU8),
            Flag(hi, 2 * BitsU8, "multiplied_hi")
              \cup Flag(lo, 2 * BitsU8, "multiplied_lo")
              \cup Flag(sum, 2 * BitsU8, "multiplied_hi + multiplied_lo"))

\* remainder that keeps the full product instead of its low 16 bits
remainder_u8_no_wrap(self, n) ==
  IF self.multiplier = 0
  THEN R(BitAnd(n, self.divisor - 1), {})
  ELSE LET product == self.multiplier * n
       IN R(Wrap(Shr(Wrap(product * self.divisor, 4 * BitsU8), 2 * BitsU8), BitsU8),
            Flag(product * self.divisor, 4 * BitsU8, "product * divisor"))

remainder_u8(self, n) ==
  IF self.multiplier = 0
  THEN R(BitAnd(n, get_u8(self) - 1), Flag(get_u8(self) - 1, BitsU8, "divisor - 1"))
  ELSE LET product == Wrap(self.multiplier * n, 2 * BitsU8)
           divisor == get_u8(self)
           shifted == Shr(Wrap(product * divisor, 4 * BitsU8), 2 * BitsU8)
       IN R(Wrap(shifted, BitsU8), Flag(product * divisor, 4 * BitsU8, "product * divisor"))

div_rem_u8(numerator, denom) ==
  LET q == divide_u8(denom, numerator)
      r == remainder_u8(denom, numerator)
  IN R(<<q.val, r.val>>, q.ovf \cup r.ovf)

\* ------------------------------------- strength_reduced_u16! (width w = u16)
new_u16(divisor, w) ==
  IF is_power_of_two(divisor)
  THEN R([divisor |-> divisor, multiplier |-> 0], {})
  ELSE LET divided == MAX(2 * w) \div divisor
       IN R([divisor |-> divisor, multiplier |-> Wrap(divided + 1, 2 * w)],
            Flag(divided + 1, 2 * w, "divided + 1"))

\* get that hands out the multiplier
get_u16_multiplier(self) == self.multiplier

get_u16(self) == self.divisor

divide_u16(self, n, w) ==
  IF self.multiplier = 0
  THEN R(Shr(n, trailing_zeros(get_u16(self))), {})
  ELSE LET numerator == n
           hi == numerator * Shr(self.multiplier, w)
           multiplied_hi == Wrap(hi, 2 * w)
           lo == numerator * Wrap(self.multiplier, w)
           multiplied_lo == Shr(Wrap(lo, 2 * w), w)
           sum == multiplied_hi + multiplied_lo
       IN R(Wrap(Shr(Wrap(sum, 2 * w), w), w),
            Flag(hi, 2 * w, "multiplied_hi")
              \cup Flag(lo, 2 * w, "multiplied_lo")
              \cup Flag(sum, 2 * w, "multiplied_hi + multiplied_lo"))

remainder_u16(self, n, w) ==
  IF self.multiplier = 0
  THEN R(BitAnd(n, get_u16(self) - 1), Flag(get_u16(self) - 1, w, "divisor - 1"))
  ELSE LET quotient == divide_u16(self, n, w)
           qd == quotient.val * get_u16(self)
           diff == n - Wrap(qd, w)
       IN R(Wrap(diff, w),
            quotient.ovf \cup Flag(qd, w, "quotient * divisor")
              \cup Flag(diff, w, "numerator - quotient * divisor"))

div_rem_u16(numerator, denom, w) ==
  LET quotient == divide_u16(denom, numerator, w)
      qd == quotient.val * get_u16(denom)
      diff == numerator - Wrap(qd, w)
  IN R(<<quotient.val, Wrap(diff, w)>>,
       quotient.ovf \cup Flag(qd, w, "quotient * divisor")
         \cup Flag(diff, w, "numerator - quotient * divisor"))

\* ------------------------------------- strength_reduced_u32! (width w = u32)
\* new without the power-of-two case
new_u32_no_sentinel(divisor, w) ==
  LET divided == MAX(2 * w) \div divisor
  IN R([divisor |-> divisor, multiplier |-> Wrap(divided + 1, 2 * w)], {})

new_u32(divisor, w) ==
  IF is_power_of_two(divisor)
  THEN R([divisor |-> divisor, multiplier |-> 0], {})
  ELSE LET divided == MAX(2 * w) \div divisor
       IN R([divisor |-> divisor, multiplier |-> Wrap(divided + 1, 2 * w)],
            Flag(divided + 1, 2 * w, "divided + 1"))

get_u32(self) == self.divisor

\* div_rem whose power-of-two path masks with the divisor itself
div_rem_u32_mask(numerator, denom, w) ==
  IF denom.multiplier = 0
  THEN R(<<Shr(numerator, trailing_zeros(denom.divisor)),
           BitAnd(numerator, denom.divisor)>>, {})
  ELSE LET hi == numerator * Shr(denom.multiplier, w)
           lo == numerator * Wrap(denom.multiplier, w)
           sum == Wrap(hi, 2 * w) + Shr(Wrap(lo, 2 * w), w)
           quotient == Wrap(Shr(Wrap(sum, 2 * w), w), w)
       IN R(<<quotient, Wrap(numerator - Wrap(quotient * denom.divisor, w), w)>>, {})

div_rem_u32(numerator, denom, w) ==
  IF denom.multiplier = 0
  THEN R(<<Shr(numerator, trailing_zeros(get_u32(denom))),
           BitAnd(numerator, get_u32(denom) - 1)>>,
         Flag(get_u32(denom) - 1, w, "divisor - 1"))
  ELSE LET numerator64 == numerator
           hi == numerator64 * Shr(denom.multiplier, w)
           multiplied_hi == Wrap(hi, 2 * w)
           lo == numerator64 * Wrap(denom.multiplier, w)
           multiplied_lo == Shr(Wrap(lo, 2 * w), w)
           sum == multiplied_hi + multiplied_lo
           quotient == Wrap(Shr(Wrap(sum, 2 * w), w), w)
           qd == quotient * get_u32(denom)
           diff == numerator - Wrap(qd, w)
       IN R(<<quotient, Wrap(diff, w)>>,
            Flag(hi, 2 * w, "multiplied_hi")
              \cup Flag(lo, 2 * w, "multiplied_lo")
              \cup Flag(sum, 2 * w, "multiplied_hi + multiplied_lo")
              \cup Flag(qd, w, "quotient * divisor")
              \cup Flag(diff, w, "numerator - quotient * divisor"))

divide_u32(self, n, w) ==
  IF self.multiplier = 0
  THEN R(Shr(n, trailing_zeros(get_u32(self))), {})
  ELSE LET numerator == n
           hi == numerator * Shr(self.multiplier, w)
           multiplied_hi == Wrap(hi, 2 * w)
           lo == numerator * Wrap(self.multiplier, w)
           multiplied_lo == Shr(Wrap(lo, 2 * w), w)
           sum == multiplied_hi + multiplied_lo
       IN R(Wrap(Shr(Wrap(sum, 2 * w), w), w),
            Flag(hi, 2 * w, "multiplied_hi")
              \cup Flag(lo, 2 * w, "multiplied_lo")
              \cup Flag(sum, 2 * w, "multiplied_hi + multiplied_lo"))

\* remainder that shifts the product down by one word instead of two
remainder_u32_short_shift(self, n, w) ==
  IF self.multiplier = 0
  THEN R(BitAnd(n, self.divisor - 1), {})
  ELSE LET product == Wrap(self.multiplier * n, 2 * w)
       IN R(Wrap(Shr(Wrap(product * self.divisor, 4 * w), w), w),
            Flag(product * self.divisor, 4 * w, "product * divisor"))

remainder_u32(self, n, w) ==
  IF self.multiplier = 0
  THEN R(BitAnd(n, get_u32(self) - 1), Flag(get_u32(self) - 1, w, "divisor - 1"))
  ELSE LET product == Wrap(self.multiplier * n, 2 * w)
           divisor == get_u32(self)
           shifted == Shr(Wrap(product * divisor, 4 * w), 2 * w)
       IN R(Wrap(shifted, w), Flag(product * divisor, 4 * w, "product * divisor"))

\* --------------------------------------------------------- long_division.rs
\* One digit of schoolbook long division of an all-ones dividend: the partial
\* remainder rem takes the next limb (all bits one), is divided by the divisor
\* and carries its remainder forward.  st = [q |-> digits so far, rem |-> ...]
\* a division step that drops the remainder instead of carrying it forward
long_division_step_no_carry(st, divisor, limb) ==
  LET partial == MAX(limb)
  IN [q |-> st.q * Pow2(limb) + partial \div divisor, rem |-> partial % divisor]

long_division_step(st, divisor, limb) ==
  LET partial == st.rem * Pow2(limb) + MAX(limb)
  IN [q |-> st.q * Pow2(limb) + partial \div divisor, rem |-> partial % divisor]

RECURSIVE long_division(_, _, _)
long_division(limbs, divisor, limb) ==
  IF limbs = 0 THEN [q |-> 0, rem |-> 0]
  ELSE long_division_step(long_division(limbs - 1, divisor, limb), divisor, limb)

\* (2^128 - 1) / divisor as a u128: two limbs, most significant first
divide_128_max_by_64(divisor, limb) == long_division(2, divisor, limb).q

\* (2^256 - 1) / divisor as (hi, lo): four limbs, most significant first
divide_256_max_by_128(divisor, limb) ==
  LET q == long_division(4, divisor, limb).q
  IN <<q \div Pow2(2 * limb), q % Pow2(2 * limb)>>

\* ------------------------------------- strength_reduced_u64! (width w = u64)
new_u64(divisor, w) ==
  IF is_power_of_two(divisor)
  THEN R([divisor |-> divisor, multiplier |-> 0], {})
  ELSE LET quotient == divide_128_max_by_64(divisor, w)
       IN R([divisor |-> divisor, multiplier |-> Wrap(quotient + 1, 2 * w)],
            Flag(quotient + 1, 2 * w, "quotient + 1"))

get_u64(self) == self.divisor

div_rem_u64(numerator, denom, w) ==
  IF denom.multiplier = 0
  THEN R(<<Shr(numerator, trailing_zeros(get_u64(denom))),
           BitAnd(numerator, get_u64(denom) - 1)>>,
         Flag(get_u64(denom) - 1, w, "divisor - 1"))
  ELSE LET numerator128 == numerator
           hi == numerator128 * Shr(denom.multiplier, w)
           multiplied_hi == Wrap(hi, 2 * w)
           lo == numerator128 * Wrap(denom.multiplier, w)
           multiplied_lo == Shr(Wrap(lo, 2 * w), w)
           sum == multiplied_hi + multiplied_lo
           quotient == Wrap(Shr(Wrap(sum, 2 * w), w), w)
           qd == quotient * get_u64(denom)
           diff == numerator - Wrap(qd, w)
       IN R(<<quotient, Wrap(diff, w)>>,
            Flag(hi, 2 * w, "multiplied_hi")
              \cup Flag(lo, 2 * w, "multiplied_lo")
              \cup Flag(sum, 2 * w, "multiplied_hi + multiplied_lo")
              \cup Flag(qd, w, "quotient * divisor")
              \cup Flag(diff, w, "numerator - quotient * divisor"))

\* divide with the low partial product left out
divide_u64_no_lo(self, n, w) ==
  IF self.multiplier = 0
  THEN R(Shr(n, trailing_zeros(self.divisor)), {})
  ELSE LET hi == n * Shr(self.multiplier, w)
       IN R(Wrap(Shr(Wrap(hi, 2 * w), w), w), Flag(hi, 2 * w, "multiplied_hi"))

divide_u64(self, n, w) ==
  IF self.multiplier = 0
  THEN R(Shr(n, trailing_zeros(get_u64(self))), {})
  ELSE LET numerator == n
           hi == numerator * Shr(self.multiplier, w)
           multiplied_hi == Wrap(hi, 2 * w)
           lo == numerator * Wrap(self.multiplier, w)
           multiplied_lo == Shr(Wrap(lo, 2 * w), w)
           sum == multiplied_hi + multiplied_lo
       IN R(Wrap(Shr(Wrap(sum, 2 * w), w), w),
            Flag(hi, 2 * w, "multiplied_hi")
              \cup Flag(lo, 2 * w, "multiplied_lo")
              \cup Flag(sum, 2 * w, "multiplied_hi + multiplied_lo"))

remainder_u64(self, n, w) ==
  IF self.multiplier = 0
  THEN R(BitAnd(n, get_u64(self) - 1), Flag(get_u64(self) - 1, w, "divisor - 1"))
  ELSE LET quotient == divide_u64(self, n, w)
           qd == quotient.val * get_u64(self)
           diff == n - Wrap(qd, w)
       IN R(Wrap(diff, w),
            quotient.ovf \cup Flag(qd, w, "quotient * divisor")
              \cup Flag(diff, w, "numerator - quotient * divisor"))

\* ------------------------------------------------- long_multiplication.rs
\* number of limbs of a (a.len()) and of the product (product.len())
ALimbs == 4
ProductLimbs == 6

\* The first loop of multiply_256_by_64_helper, from index i (0-based; the
\* arrays are sequences, element i is at i + 1): st = [product, carry, ovf].
\* carry is a u128, that is two limbs wide.
RECURSIVE helper_multiply_loop(_, _, _, _, _)
helper_multiply_loop(st, i, a, b, limb) ==
  IF i < ALimbs
  THEN LET c1 == st.carry + st.product[i + 1]
           c2 == Wrap(c1, 2 * limb) + a[i + 1] * b
       IN helper_multiply_loop(
            [product |-> [st.product EXCEPT ![i + 1] = Wrap(c2, limb)],
             carry |-> Shr(Wrap(c2, 2 * limb), limb),
             ovf |-> st.ovf \cup Flag(c1, 2 * limb, "carry += product[i]")
                       \cup Flag(a[i + 1] * b, 2 * limb, "a[i] * b")
                       \cup Flag(c2, 2 * limb, "carry += a[i] * b")],
            i + 1, a, b, limb)
  ELSE st

\* The second loop of multiply_256_by_64_helper: carry through the rest.
RECURSIVE helper_carry_loop(_, _, _)
helper_carry_loop(st, i, limb) ==
  IF st.carry # 0 /\ i < ProductLimbs
  THEN LET c1 == st.carry + st.product[i + 1]
       IN helper_carry_loop(
            [product |-> [st.product EXCEPT ![i + 1] = Wrap(c1, limb)],
             carry |-> Shr(Wrap(c1, 2 * limb), limb),
             ovf |-> st.ovf \cup Flag(c1, 2 * limb, "carry += product[i]")],
            i + 1, limb)
  ELSE st

\* multiply_256_by_64_helper(product, ibeg, a, b): R(product, overflowed steps)
multiply_256_by_64_helper(product, ibeg, a, b, limb) ==
  IF b # 0
  THEN LET st1 == helper_multiply_loop([product |-> product, carry |-> 0, ovf |-> {}],
                                       ibeg, a, b, limb)
           st2 == helper_carry_loop(st1, ibeg + ALimbs, limb)
       IN R(st2.product, st2.ovf)
  ELSE R(product, {})

multiply_256_by_128_upperbits(a_hi, a_lo, b, limb) ==
  LET a_chunks == <<Wrap(a_lo, limb), Wrap(Shr(a_lo, limb), limb),
                    Wrap(a_hi, limb), Wrap(Shr(a_hi, limb), limb)>>
      b_chunks == <<Wrap(b, limb), Wrap(Shr(b, limb), limb)>>
      p0 == multiply_256_by_64_helper([i \in 1..ProductLimbs |-> 0], 0, a_chunks,
                                      b_chunks[1], limb)
      p1 == multiply_256_by_64_helper(p0.val, 1, a_chunks, b_chunks[2], limb)
  IN R(BitOr(Wrap(Shl(p1.val[6], limb), 2 * limb), p1.val[5]), p0.ovf \cup p1.ovf)

\* ---------------------------------- StrengthReducedU128 (two limbs wide)
\* new that stores the quotient itself, without the increment
new_u128_no_increment(divisor, limb) ==
  IF is_power_of_two(divisor)
  THEN R([multiplier_hi |-> 0, multiplier_lo |-> 0, divisor |-> divisor], {})
  ELSE LET quotient == divide_256_max_by_128(divisor, limb)
       IN R([multiplier_hi |-> quotient[1], multiplier_lo |-> quotient[2],
             divisor |-> divisor], {})

new_u128(divisor, limb) ==
  IF is_power_of_two(divisor)
  THEN R([multiplier_hi |-> 0, multiplier_lo |-> 0, divisor |-> divisor], {})
  ELSE LET quotient == divide_256_max_by_128(divisor, limb)
           quotient_hi == quotient[1]
           quotient_lo == quotient[2]
           multiplier_lo == Wrap(quotient_lo + 1, 2 * limb)
           multiplier_hi == IF multiplier_lo = 0 THEN quotient_hi + 1 ELSE quotient_hi
       IN R([multiplier_hi |-> Wrap(multiplier_hi, 2 * limb),
             multiplier_lo |-> multiplier_lo, divisor |-> divisor],
            Flag(multiplier_hi, 2 * limb, "quotient_hi + 1"))

get_u128(self) == self.divisor

divide_u128(self, n, limb) ==
  IF self.multiplier_hi = 0
  THEN R(Shr(n, trailing_zeros(get_u128(self))), {})
  ELSE multiply_256_by_128_upperbits(self.multiplier_hi, self.multiplier_lo, n, limb)

\* remainder whose power-of-two path masks with the divisor itself
remainder_u128_mask(self, n, limb) ==
  IF self.multiplier_hi = 0
  THEN R(BitAnd(n, self.divisor), {})
  ELSE LET quotient == multiply_256_by_128_upperbits(self.multiplier_hi,
                                                     self.multiplier_lo, n, limb)
           qd == quotient.val * self.divisor
           diff == n - Wrap(qd, 2 * limb)
       IN R(Wrap(diff, 2 * limb),
            quotient.ovf \cup Flag(qd, 2 * limb, "quotient * divisor")
              \cup Flag(diff, 2 * limb, "numerator - quotient * divisor"))

remainder_u128(self, n, limb) ==
  IF self.multiplier_hi = 0
  THEN R(BitAnd(n, get_u128(self) - 1),
         Flag(get_u128(self) - 1, 2 * limb, "divisor - 1"))
  ELSE LET quotient == multiply_256_by_128_upperbits(self.multiplier_hi,
                                                     self.multiplier_lo, n, limb)
           qd == quotient.val * get_u128(self)
           diff == n - Wrap(qd, 2 * limb)
       IN R(Wrap(diff, 2 * limb),
            quotient.ovf \cup Flag(qd, 2 * limb, "quotient * divisor")
              \cup Flag(diff, 2 * limb, "numerator - quotient * divisor"))

div_rem_u128(numerator, denom, limb) ==
  LET quotient == divide_u128(denom, numerator, limb)
      qd == quotient.val * get_u128(denom)
      diff == numerator - Wrap(qd, 2 * limb)
  IN R(<<quotient.val, Wrap(diff, 2 * limb)>>,
       quotient.ovf \cup Flag(qd, 2 * limb, "quotient * divisor")
         \cup Flag(diff, 2 * limb, "numerator - quotient * divisor"))

\* ------------------------------------------- the engine of each type
new(t, divisor) ==
  CASE Family(t) = "u8" -> new_u8(divisor)
    [] Family(t) = "u16" -> new_u16(divisor, Width(t))
    [] Family(t) = "u32" -> new_u32(divisor, Width(t))
    [] Family(t) = "u64" -> new_u64(divisor, Width(t))
    [] Family(t) = "u128" -> new_u128(divisor, LimbBits)

get(t, self) ==
  CASE Family(t) = "u8" -> get_u8(self)
    [] Family(t) = "u16" -> get_u16(self)
    [] Family(t) = "u32" -> get_u32(self)
    [] Family(t) = "u64" -> get_u64(self)
    [] Family(t) = "u128" -> get_u128(self)

divide(t, self, n) ==
  CASE Family(t) = "u8" -> divide_u8(self, n)
    [] Family(t) = "u16" -> divide_u16(self, n, Width(t))
    [] Family(t) = "u32" -> divide_u32(self, n, Width(t))
    [] Family(t) = "u64" -> divide_u64(self, n, Width(t))
    [] Family(t) = "u128" -> divide_u128(self, n, LimbBits)

remainder(t, self, n) ==
  CASE Family(t) = "u8" -> remainder_u8(self, n)
    [] Family(t) = "u16" -> remainder_u16(self, n, Width(t))
    [] Family(t) = "u32" -> remainder_u32(self, n, Width(t))
    [] Family(t) = "u64" -> remainder_u64(self, n, Width(t))
    [] Family(t) = "u128" -> remainder_u128(self, n, LimbBits)

div_rem(t, numerator, denom) ==
  CASE Family(t) = "u8" -> div_rem_u8(numerator, denom)
    [] Family(t) = "u16" -> div_rem_u16(numerator, denom, Width(t))
    [] Family(t) = "u32" -> div_rem_u32(numerator, denom, Width(t))
    [] Family(t) = "u64" -> div_rem_u64(numerator, denom, Width(t))
    [] Family(t) = "u128" -> div_rem_u128(numerator, denom, LimbBits)

\* impl Div<StrengthReducedUxx> for uxx, impl Rem<StrengthReducedUxx> for uxx
\* the division operator wired to remainder
Div_div_remainder(t, self, rhs) == remainder(t, rhs, self)

Div_div(t, self, rhs) == divide(t, rhs, self)
Rem_rem(t, self, rhs) == remainder(t, rhs, self)

\* ------------------------------------------------------------- the program
\* what a call leaves: its value, or a panic.  A call one of whose steps
\* overflowed panics under overflow checks and returns the wrapped value
\* without them.
Panic == [status |-> "panic"]
Ok(res) == [status |-> "ok", val |-> res.val, ovf |-> res.ovf]
Outcomes(res) == IF res.ovf = {} THEN {Ok(res)} ELSE {Ok(res), Panic}

Values(t) == 0..MAX(Width(t))

Init ==
  /\ ty \in Types
  /\ num \in Values(ty)
  /\ arg = 0
  /\ eng = NoEngine
  /\ op = "init"
  /\ out = [status |-> "none"]

\* let reduced_divisor = StrengthReducedUxx::new(NonZeroUxx::new(d).unwrap())
New(d) ==
  /\ op = "init"
  /\ arg' = d
  /\ op' = "new"
  /\ IF ~NonZero_new(d).some
     THEN /\ out' = Panic
          /\ eng' = NoEngine
     ELSE \E o \in Outcomes(new(ty, NonZero_new(d).get)) :
            /\ out' = [o EXCEPT !.val = <<>>]
            /\ eng' = IF o.status = "ok" THEN o.val ELSE NoEngine
  /\ UNCHANGED <<ty, num>>

\* an engine exists and the program has not panicked
Live == eng # NoEngine /\ out.status # "panic"

\* the caller holds an engine and a numerator and makes its next call
Ready == Live /\ op \in {"new", "next"}

Get ==
  /\ Ready
  /\ op' = "get"
  /\ out' = Ok(R(get(ty, eng), {}))
  /\ UNCHANGED <<ty, arg, eng, num>>

Divide ==
  /\ Ready
  /\ op' = "divide"
  /\ out' \in Outcomes(divide(ty, eng, num))
  /\ UNCHANGED <<ty, arg, eng, num>>

Remainder ==
  /\ Ready
  /\ op' = "remainder"
  /\ out' \in Outcomes(remainder(ty, eng, num))
  /\ UNCHANGED <<ty, arg, eng, num>>

DivRem ==
  /\ Ready
  /\ op' = "div_rem"
  /\ out' \in Outcomes(div_rem(ty, num, eng))
  /\ UNCHANGED <<ty, arg, eng, num>>

\* numerator / reduced_divisor
DivOp ==
  /\ Ready
  /\ op' = "div"
  /\ out' \in Outcomes(Div_div(ty, num, eng))
  /\ UNCHANGED <<ty, arg, eng, num>>

\* numerator % reduced_divisor
RemOp ==
  /\ Ready
  /\ op' = "rem"
  /\ out' \in Outcomes(Rem_rem(ty, num, eng))
  /\ UNCHANGED <<ty, arg, eng, num>>

\* the caller has looked at the result of its call and moves on to the next
\* numerator (for &numerator in &numerators), wrapping round at the maximum
NextNumerator ==
  /\ Live
  /\ ~Ready
  /\ op' = "next"
  /\ num' = Wrap(num + 1, Width(ty))
  /\ out' = Ok(R(<<>>, {}))
  /\ UNCHANGED <<ty, arg, eng>>

Next ==
  \/ \E d \in Values(ty) : New(d)
  \/ Get
  \/ Divide
  \/ Remainder
  \/ DivRem
  \/ DivOp
  \/ RemOp
  \/ NextNumerator

Spec == Init /\ [][Next]_vars

\* ------------------------------------------------------------------ claims
\* the calls whose result is a quotient, a remainder, or both
Narrow == Family(ty) # "u128"
NonPow2 == arg # 0 /\ ~is_power_of_two(arg)

\* C1: on the 8-, 16-, 32-, 64-bit and pointer-width engines, divide(new(d), n)
\* returns the native truncating quotient n / d, for every non-zero d and
\* every n of the width.
C1_DivideExact ==
  (op = "divide" /\ Narrow) => (out.status = "ok" /\ out.val = num \div arg)

\* C1 witness: a divide on the multiplier path with the largest numerator
C1_Witness ==
  /\ op = "divide" /\ ty = "U64" /\ NonPow2 /\ num = MAX(Width(ty))
  /\ out.status = "ok" /\ out.val = num \div arg /\ out.val > 0

\* C2: on the 8-, 16-, 32-, 64-bit and pointer-width engines,
\* remainder(new(d), n) returns the native modulo n % d, for every non-zero d
\* and every n of the width.
C2_RemainderExact ==
  (op = "remainder" /\ Narrow) => (out.status = "ok" /\ out.val = num % arg)

\* C2 witness: a remainder on the multiplier path with a non-zero result
C2_Witness ==
  /\ op = "remainder" /\ ty = "U32" /\ NonPow2 /\ num > arg
  /\ out.status = "ok" /\ out.val = num % arg /\ out.val > 0

\* C3: on the 128-bit engine divide, remainder and div_rem return the native
\* n / d, n % d and (n / d, n % d), for every non-zero d and every n,
\* numerators with a non-zero upper limb included.
C3_U128Exact ==
  (Family(ty) = "u128" /\ op \in {"divide", "remainder", "div_rem"}) =>
    /\ out.status = "ok"
    /\ op = "divide" => out.val = num \div arg
    /\ op = "remainder" => out.val = num % arg
    /\ op = "div_rem" => out.val = <<num \div arg, num % arg>>

\* C4: on every width the pair (q, r) that div_rem returns satisfies
\* q * d + r = n, computed without wraparound, and r < d.
C4_Reconstruction ==
  op = "div_rem" =>
    /\ out.status = "ok"
    /\ out.val[1] * arg + out.val[2] = num
    /\ out.val[2] < arg

\* C5: on every width div_rem(n, new(d)) has the outcome of divide(new(d), n)
\* paired with remainder(new(d), n): the same quotient, the same remainder,
\* and it overflows exactly when one of the two does.
C5_DivRemAgrees ==
  op = "div_rem" =>
    LET q == divide(ty, eng, num)
        r == remainder(ty, eng, num)
    IN /\ out.status = "ok" => /\ out.val = <<q.val, r.val>>
                               /\ (out.ovf = {}) = (q.ovf \cup r.ovf = {})
       /\ out.status = "panic" => q.ovf \cup r.ovf # {}

\* C5 witness: div_rem and remainder take different routes to the same
\* non-zero remainder (u32 family: subtraction against the 4W-bit product)
C5_Witness ==
  /\ op = "div_rem" /\ ty = "U32" /\ NonPow2 /\ num > arg
  /\ out.status = "ok" /\ out.val[1] > 0 /\ out.val[2] > 0
  /\ out.val = <<divide(ty, eng, num).val, remainder(ty, eng, num).val>>

\* C6: on every width no arithmetic step of divide, remainder or div_rem
\* leaves the range of its fixed-width type.
C6_NoOverflow ==
  op \in {"divide", "remainder", "div_rem", "div", "rem"} =>
    (out.status = "ok" /\ out.ovf = {})

\* C7: construction fails exactly when the divisor is zero, every engine has
\* a non-zero divisor, and no other operation fails.
C7_OnlyZeroFails ==
  /\ (out.status = "panic") = (op = "new" /\ arg = 0)
  /\ op # "init" => ((eng = NoEngine) = (arg = 0))
  /\ eng # NoEngine => eng.divisor # 0

\* C8: on every width, for a power-of-two divisor, divide returns
\* n >> trailing_zeros(d) and remainder returns n & (d - 1), and these are
\* n / d and n % d.
C8_PowerOfTwo ==
  (arg # 0 /\ is_power_of_two(arg)) =>
    /\ op = "divide" =>
         /\ out.status = "ok" /\ out.ovf = {}
         /\ out.val = Shr(num, trailing_zeros(arg))
         /\ out.val = num \div arg
    /\ op = "remainder" =>
         /\ out.status = "ok" /\ out.ovf = {}
         /\ out.val = BitAnd(num, arg - 1)
         /\ out.val = num % arg

\* C8 witness: the 128-bit engine, d = 2^(W-1), the largest numerator
C8_Witness ==
  /\ ty = "U128" /\ arg = Pow2(Width(ty) - 1) /\ num = MAX(Width(ty))
  /\ op = "remainder" /\ out.status = "ok" /\ out.val = arg - 1

\* C9: calls leave the engine as new(d) made it, and get returns d.
C9_EngineFrame ==
  [][/\ eng # NoEngine => (eng' = eng /\ arg' = arg)
     /\ op' = "get" => (out'.status = "ok" /\ out'.val = arg')]_vars

\* C9 witness: a call has returned and the caller has moved on; the engine
\* is still the one new(d) made and get still answers d
C9_Witness ==
  /\ op = "next" /\ ty = "U16" /\ NonPow2
  /\ eng = new(ty, arg).val /\ eng.multiplier # 0 /\ get(ty, eng) = arg

\* C10: n / e is e.divide(n) and n % e is e.remainder(n).
C10_OperatorsAgree ==
  /\ op = "div" => out \in Outcomes(divide(ty, eng, num))
  /\ op = "rem" => out \in Outcomes(remainder(ty, eng, num))

\* C10 witness: the division operator on a multiplier-path engine
C10_Witness ==
  /\ op = "div" /\ ty = "U8" /\ NonPow2 /\ num > arg
  /\ out.status = "ok" /\ out.val = num \div arg

\* --------------------------------------------- claims on the wide arithmetic
\* the 128-bit engine exists and took the multiplier path
Wide == Family(ty) = "u128" /\ eng # NoEngine /\ NonPow2

\* the multiplier of the 128-bit engine read as one 256-bit value
Multiplier256 == eng.multiplier_hi * Pow2(2 * LimbBits) + eng.multiplier_lo

\* a little-endian limb array read as one integer
RECURSIVE LimbsValue(_, _)
LimbsValue(p, limb) ==
  IF p = <<>> THEN 0 ELSE Head(p) + Pow2(limb) * LimbsValue(Tail(p), limb)

\* the little-endian limbs of the multiplier, as multiply_256_by_128_upperbits
\* splits them
MultiplierChunks ==
  <<Wrap(eng.multiplier_lo, LimbBits), Wrap(Shr(eng.multiplier_lo, LimbBits), LimbBits),
    Wrap(eng.multiplier_hi, LimbBits), Wrap(Shr(eng.multiplier_hi, LimbBits), LimbBits)>>

\* C11: multiply_256_by_128_upperbits(a_hi, a_lo, b) is the upper 128 bits of
\* the 384-bit product (a_hi * 2^128 + a_lo) * b, that is the product divided
\* by 2^256 (here: a the engine's multiplier, b the numerator of the call).
C11_UpperBits ==
  (Wide /\ op = "divide") =>
    /\ out.status = "ok"
    /\ out.val = Shr(Multiplier256 * num, 4 * LimbBits)

\* C12: a pass of multiply_256_by_64_helper(product, k, a, b_k), k in {0, 1},
\* returns product + a * b_k * 2^(64 k) read as a 6-limb value, so that the
\* two passes leave the full product a * b.
C12_HelperPass ==
  (Wide /\ op = "divide") =>
    LET a == MultiplierChunks
        b0 == Wrap(num, LimbBits)
        b1 == Wrap(Shr(num, LimbBits), LimbBits)
        zero == [i \in 1..ProductLimbs |-> 0]
        p0 == multiply_256_by_64_helper(zero, 0, a, b0, LimbBits).val
        p1 == multiply_256_by_64_helper(p0, 1, a, b1, LimbBits).val
    IN /\ LimbsValue(p0, LimbBits) = LimbsValue(a, LimbBits) * b0
       /\ LimbsValue(p1, LimbBits) =
            LimbsValue(p0, LimbBits) + LimbsValue(a, LimbBits) * b1 * Pow2(LimbBits)
       /\ LimbsValue(p1, LimbBits) = Multiplier256 * num

\* the stored multiplier as one 2W-bit value
Multiplier == IF Family(ty) = "u128" THEN Multiplier256 ELSE eng.multiplier

\* C13: for a divisor d that is not a power of two, new(d) stores the
\* multiplier floor((2^(2W) - 1) / d) + 1, which is ceil(2^(2W) / d); the
\* increment does not overflow; on the 128-bit engine multiplier_hi is the
\* quotient's high half, one more exactly when multiplier_lo wrapped to zero.
C13_Multiplier ==
  (op = "new" /\ NonPow2) =>
    /\ out.status = "ok" /\ out.ovf = {}
    /\ Multiplier = MAX(2 * Width(ty)) \div arg + 1
    /\ Multiplier <= MAX(2 * Width(ty))
    /\ Multiplier * arg >= Pow2(2 * Width(ty))
    /\ (Multiplier - 1) * arg < Pow2(2 * Width(ty))
    /\ Family(ty) = "u128" =>
         /\ eng.multiplier_lo = Wrap(divide_256_max_by_128(arg, LimbBits)[2] + 1,
                                     2 * LimbBits)
         /\ eng.multiplier_hi = divide_256_max_by_128(arg, LimbBits)[1]
                                  + (IF eng.multiplier_lo = 0 THEN 1 ELSE 0)

\* C13 witness: a 128-bit engine for a divisor with a non-zero upper limb
C13_Witness ==
  /\ op = "new" /\ ty = "U128" /\ NonPow2 /\ arg > MAX(LimbBits)
  /\ eng.multiplier_hi > 0 /\ eng.multiplier_lo > 0
  /\ Multiplier256 = MAX(4 * LimbBits) \div arg + 1

\* C14: when the divisor given to new is a power of two the stored multiplier
\* is zero, on the 128-bit engine both halves.
C14_Sentinel ==
  (op = "new" /\ arg # 0 /\ is_power_of_two(arg)) =>
    /\ out.status = "ok" /\ out.ovf = {}
    /\ eng.divisor = arg
    /\ IF Family(ty) = "u128"
       THEN eng.multiplier_hi = 0 /\ eng.multiplier_lo = 0
       ELSE eng.multiplier = 0

\* C14 witness: the u32 family, the largest power of two of the width
C14_Witness ==
  /\ op = "new" /\ ty = "U32" /\ arg = Pow2(Width(ty) - 1)
  /\ eng.divisor = arg /\ eng.multiplier = 0

\* C15: the wide division returns the exact truncated quotient:
\* divide_128_max_by_64(d) = floor((2^128 - 1) / d) and divide_256_max_by_128(d)
\* = (hi, lo) with hi * 2^128 + lo = floor((2^256 - 1) / d), for every
\* non-zero d, and after each limb the partial remainder is below d.
C15_WideDivision ==
  (op = "new" /\ arg # 0) =>
    /\ Family(ty) = "u64" =>
         /\ divide_128_max_by_64(arg, LimbBits) = MAX(2 * LimbBits) \div arg
         /\ \A k \in 1..2 : long_division(k, arg, LimbBits).rem < arg
         /\ long_division(2, arg, LimbBits).rem = MAX(2 * LimbBits) % arg
    /\ Family(ty) = "u128" =>
         LET q == divide_256_max_by_128(arg, LimbBits)
         IN /\ q[1] * Pow2(2 * LimbBits) + q[2] = MAX(4 * LimbBits) \div arg
            /\ q[1] <= MAX(2 * LimbBits) /\ q[2] <= MAX(2 * LimbBits)
            /\ \A k \in 1..4 : long_division(k, arg, LimbBits).rem < arg
            /\ long_division(4, arg, LimbBits).rem = MAX(4 * LimbBits) % arg

\* C15 witness: the 128-bit engine's constructor has divided 2^256 - 1 by a
\* divisor with a non-zero upper limb and stored the quotient plus one
C15_Witness ==
  /\ op = "new" /\ ty = "U128" /\ NonPow2 /\ arg > MAX(LimbBits)
  /\ eng # NoEngine
  /\ Multiplier256 - 1 = divide_256_max_by_128(arg, LimbBits)[1] * Pow2(2 * LimbBits)
                           + divide_256_max_by_128(arg, LimbBits)[2]
  /\ long_division(3, arg, LimbBits).rem > 0

\* C16: on the 8-bit and 32-bit engines, for a divisor that is not a power of
\* two, the remainder taken from the middle bits,
\* (((multiplier * n) mod 2^(2W)) * d) >> 2W, equals n - divide(n) * d.
C16_StrategiesAgree ==
  (op = "remainder" /\ Family(ty) \in {"u8", "u32"} /\ NonPow2) =>
    /\ out.status = "ok"
    /\ out.val = Shr(Wrap(eng.multiplier * num, 2 * Width(ty)) * arg, 2 * Width(ty))
    /\ out.val = num - divide(ty, eng, num).val * arg

\* C16 witness: the 8-bit engine, largest divisor but one, largest numerator
C16_Witness ==
  /\ op = "remainder" /\ ty = "U8" /\ arg = MAX(BitsU8) - 1 /\ num = MAX(BitsU8)
  /\ out.status = "ok" /\ out.val = 1 /\ divide(ty, eng, num).val = 1

\* the test divide, remainder and div_rem make to choose the shift/mask path
ShiftPath == IF Family(ty) = "u128" THEN eng.multiplier_hi = 0 ELSE eng.multiplier = 0

\* C17: for a non-zero divisor that is not a power of two the stored
\* multiplier (on the 128-bit engine multiplier_hi alone) is not zero, so the
\* zero test selects the shift/mask path exactly for the powers of two.
C17_SentinelUnambiguous ==
  (op = "new" /\ eng # NoEngine) => (ShiftPath = is_power_of_two(arg))

\* C17 witness: a 128-bit engine on the multiplier path whose multiplier_hi
\* is as small as it gets (the largest divisor)
C17_Witness ==
  /\ op = "new" /\ ty = "U128" /\ arg = MAX(Width(ty))
  /\ eng # NoEngine /\ eng.multiplier_hi = 1 /\ ~ShiftPath

====
